---- MODULE Spec2Model ----
(***************************************************************************)
(* ChiselPDF (src/main.py): the page-range parser parse_page_ranges, the   *)
(* page extractor trim_pdf and the window PDFPageSelectorApp that drives   *)
(* them.  Text is a sequence of one-character strings, a document is the   *)
(* sequence of its pages' contents, the disk is a function from paths to   *)
(* files.                                                                  *)
(***************************************************************************)
EXTENDS Integers, Sequences, FiniteSets, TLC

VARIABLES
    page_input,      \* the argument of the latest parse_page_ranges call
    parsed,          \* what that call returned or raised
    files,           \* the disk: path -> file
    trim_args,       \* the arguments of the latest trim_pdf call, and the output file before it
    trim_ret,        \* what that call returned
    input_path,      \* PDFPageSelectorApp.input_path
    output_path,     \* PDFPageSelectorApp.output_path
    total_pages,     \* PDFPageSelectorApp.total_pages
    process_button,  \* process_button.isEnabled()
    page_entry,      \* page_entry.text()
    labels,          \* the text of input_label, page_info_label and output_label
    status_label,    \* status_label.text()
    message_box      \* the latest QMessageBox shown and the button it was left by

vars == <<page_input, parsed, files, trim_args, trim_ret, input_path, output_path,
          total_pages, process_button, page_entry, labels, status_label, message_box>>

parse_vars == <<page_input, parsed>>
trim_vars == <<trim_args, trim_ret>>
app_vars == <<input_path, output_path, total_pages, process_button, page_entry,
              labels, status_label, message_box>>

\* ------------------------------------------------------------------ bounds

\* longest expression handed to parse_page_ranges
MaxLen == 5
\* most pages of a source document
MaxPageCount == 3
\* longest page list handed to trim_pdf directly
MaxRequest == 3

\* the characters expressions are made of: two digits, the two separators,
\* a space, a tab, and a letter standing for every other character
Alphabet == {"0", "1", "-", ",", " ", "\t", "a"}

RECURSIVE Strings(_)
Strings(n) ==
    IF n = 0 THEN {<<>>}
    ELSE LET shorter == Strings(n - 1)
         IN  shorter \cup {Append(s, c) : s \in {t \in shorter : Len(t) = n - 1}, c \in Alphabet}

\* ------------------------------------------------------------ text helpers

\* a path: its directory, the parts of its stem, its suffix
PathOf(parent, stem, suffix) == [parent |-> parent, stem |-> stem, suffix |-> suffix]

\* None where a path is expected
None == [parent |-> "None", stem |-> <<>>, suffix |-> "None"]

\* what str.strip() and int() take for whitespace
Whitespace == {" ", "\t", "\n"}
DigitChars == {"0", "1", "2", "3", "4", "5", "6", "7", "8", "9"}

DigitValue(c) ==
    CASE c = "0" -> 0 [] c = "1" -> 1 [] c = "2" -> 2 [] c = "3" -> 3 [] c = "4" -> 4
      [] c = "5" -> 5 [] c = "6" -> 6 [] c = "7" -> 7 [] c = "8" -> 8 [] c = "9" -> 9

\* str.replace(" ", ""): every space character goes, nothing else
RemoveSpaces(s) == SelectSeq(s, LAMBDA c : c # " ")

\* c in s
Contains(s, c) == \E i \in 1..Len(s) : s[i] = c

\* the position of the first c in s (s contains c)
FirstIndex(s, c) == CHOOSE i \in 1..Len(s) : s[i] = c /\ \A j \in 1..(i - 1) : s[j] # c

\* str.split(sep): every piece between separators, the empty ones included
RECURSIVE Split(_, _)
Split(s, sep) ==
    IF ~Contains(s, sep) THEN <<s>>
    ELSE LET i == FirstIndex(s, sep)
         IN  <<SubSeq(s, 1, i - 1)>> \o Split(SubSeq(s, i + 1, Len(s)), sep)

\* str.split(sep, 1) of a string that contains sep: cut at the first sep only
SplitOnce(s, sep) ==
    LET i == FirstIndex(s, sep)
    IN  <<SubSeq(s, 1, i - 1), SubSeq(s, i + 1, Len(s))>>

\* str.strip(): leading and trailing whitespace goes
RECURSIVE LStrip(_)
LStrip(s) == IF s # <<>> /\ Head(s) \in Whitespace THEN LStrip(Tail(s)) ELSE s
RECURSIVE RStrip(_)
RStrip(s) ==
    IF s # <<>> /\ s[Len(s)] \in Whitespace THEN RStrip(SubSeq(s, 1, Len(s) - 1)) ELSE s
Strip(s) == RStrip(LStrip(s))

\* int(s), base 10: surrounding whitespace is dropped, one sign may lead,
\* and at least one digit follows and nothing else
Unsigned(s) ==
    LET t == Strip(s)
    IN  IF t # <<>> /\ Head(t) \in {"-", "+"} THEN Tail(t) ELSE t

IntOk(s) ==
    LET d == Unsigned(s)
    IN  d # <<>> /\ \A i \in 1..Len(d) : d[i] \in DigitChars

RECURSIVE DigitsValue(_)
DigitsValue(d) ==
    IF d = <<>> THEN 0
    ELSE 10 * DigitsValue(SubSeq(d, 1, Len(d) - 1)) + DigitValue(d[Len(d)])

IntValue(s) ==
    LET t == Strip(s)
    IN  IF Head(t) = "-" THEN 0 - DigitsValue(Unsigned(s)) ELSE DigitsValue(Unsigned(s))

\* sorted(pages) of a set of integers
Sorted(S) ==
    LET ranked == {<<Cardinality({y \in S : y < x}) + 1, x>> : x \in S}
    IN  [i \in 1..Cardinality(S) |-> (CHOOSE p \in ranked : p[1] = i)[2]]

\* range(start, stop)
Range(start, stop) == start..(stop - 1)

\* ------------------------------------------------------ parse_page_ranges

\* return sorted(pages)
Returned(pages) == [ok |-> TRUE, pages |-> Sorted(pages)]

\* raise ValueError(...): which message, about which part, and why
Raised(error, part, cause) == [ok |-> FALSE, error |-> error, part |-> part, cause |-> cause]

\* range(start_page, end_page): the last page of the range is lost
RangePagesExclusive(start_page, end_page) == Range(start_page, end_page)

\* pages.update(range(start_page, end_page + 1))
RangePages(start_page, end_page) == Range(start_page, end_page + 1)

\* the loop body for a range without the start > end test: range() of a
\* reversed pair is empty
RangePartUnordered(part) ==
    LET se == SplitOnce(part, "-")
    IN  IF ~IntOk(se[1]) \/ ~IntOk(se[2])
        THEN Raised("Invalid range format", part, "invalid literal for int()")
        ELSE [ok |-> TRUE, add |-> Range(IntValue(se[1]), IntValue(se[2]) + 1)]

\* the body of the loop for a part that contains "-": the pages it adds, or
\* the error it raises
RangePart(part) ==
    LET se == SplitOnce(part, "-")
        start == se[1]
        end == se[2]
    IN  IF ~IntOk(start) \/ ~IntOk(end)
        THEN Raised("Invalid range format", part, "invalid literal for int()")
        ELSE IF IntValue(start) > IntValue(end)
        THEN Raised("Invalid range format", part, "start > end")
        ELSE [ok |-> TRUE, add |-> RangePages(IntValue(start), IntValue(end))]

\* the loop body for a single page that takes page numbers from 1 only
SinglePartPositive(part) ==
    IF IntOk(part) /\ IntValue(part) >= 1 THEN [ok |-> TRUE, add |-> {IntValue(part)}]
    ELSE Raised("Invalid page number", part, "invalid literal for int()")

\* the body of the loop for a part without "-"
SinglePart(part) ==
    IF IntOk(part) THEN [ok |-> TRUE, add |-> {IntValue(part)}]
    ELSE Raised("Invalid page number", part, "invalid literal for int()")

\* one part's effect
OnePart(part) ==
    IF part = <<>> THEN [ok |-> TRUE, add |-> {}]
    ELSE IF Contains(part, "-") THEN RangePart(part)
    ELSE SinglePart(part)

\* the loop over the parts: the first part that raises ends the call
RECURSIVE ParseLoop(_, _)
ParseLoop(parts, pages) ==
    IF parts = <<>> THEN Returned(pages)
    ELSE LET r == OnePart(Head(parts))
         IN  IF r.ok THEN ParseLoop(Tail(parts), pages \cup r.add) ELSE r

\* parts = page_input.replace(" ", "").split(",")
Parts(text) == Split(RemoveSpaces(text), ",")

parse_page_ranges(text) == ParseLoop(Parts(text), {})

\* --------------------------------------------------------------- trim_pdf

\* a file on the disk
Absent == [kind |-> "absent", pages |-> <<>>]
Pdf(pages) == [kind |-> "pdf", pages |-> pages]
\* a file that is no PDF document
NotPdf == [kind |-> "other", pages |-> <<>>]
\* what open(output_path, "wb") leaves when the write after it does not
\* complete: the file is truncated, and holds at most a part of the output
Partial == [kind |-> "partial", pages |-> <<>>]

\* a document of n pages, each page with its own content
Doc(name, n) == [i \in 1..n |-> <<name, i>>]

\* what the environment does to a call: nothing, or an exception out of
\* PdfReader / reader.pages, out of open(output_path, "wb"), or out of
\* writer.write after the file was opened
IOOutcomes == {"ok", "read_error", "open_error", "write_error"}

\* reader.pages[k + 1]: the index is not converted to 0-indexed
ReaderPageShifted(doc, k) == IF k + 2 \in DOMAIN doc THEN doc[k + 2] ELSE doc[k + 1]

\* reader.pages[k], 0-indexed
ReaderPage(doc, k) == doc[k + 1]

\* 1 <= page_num < total_pages: the last page is taken for invalid
InRangeExclusive(page_num, total) == 1 <= page_num /\ page_num < total

\* 1 <= page_num <= total_pages
InRange(page_num, total) == 1 <= page_num /\ page_num <= total

\* valid_pages after the loop
ValidPages(page_numbers, total) == SelectSeq(page_numbers, LAMBDA p : InRange(p, total))

\* invalid_pages after the loop
InvalidPages(page_numbers, total) == SelectSeq(page_numbers, LAMBDA p : ~InRange(p, total))

\* the writer's pages after the loop: writer.add_page(reader.pages[page_num - 1])
WriterPages(doc, page_numbers) ==
    LET valid == ValidPages(page_numbers, Len(doc))
    IN  [i \in 1..Len(valid) |-> ReaderPage(doc, valid[i] - 1)]

Message(text, exc, count, skipped, total) ==
    [text |-> text, exc |-> exc, count |-> count, skipped |-> skipped, total |-> total]

\* the locals of a call: whether the loop was completed, what it left, and
\* whether open(output_path, "wb") was reached
NoLocals == [reached |-> FALSE, total_pages |-> 0, valid_pages |-> <<>>,
             invalid_pages |-> <<>>, writer |-> <<>>, opened |-> FALSE]

\* except Exception as e: return False, f"Error processing PDF: {str(e)}", []
Failed(exc, locals, disk) ==
    [success |-> FALSE, message |-> Message("Error processing PDF: ", exc, 0, <<>>, 0),
     valid_pages |-> <<>>, locals |-> locals, files |-> disk]

\* return False, "No valid pages to include in the output PDF.", []
NoValidPages(locals, disk) ==
    [success |-> FALSE,
     message |-> Message("No valid pages to include in the output PDF.", "", 0, <<>>, 0),
     valid_pages |-> <<>>, locals |-> locals, files |-> disk]

\* the message of a successful call: the count, and the skipped pages with
\* the total when there are any
SuccessMessage(valid, invalid, total) ==
    IF invalid # <<>>
    THEN Message("Successfully created PDF with pages; Skipped invalid pages", "",
                 Len(valid), invalid, total)
    ELSE Message("Successfully created PDF with pages", "", Len(valid), <<>>, 0)

\* with open(output_path, "wb") as output_file: writer.write(output_file)
WriteOutput(disk, path, pages) == [disk EXCEPT ![path] = Pdf(pages)]

\* the same, the write not completing
WriteInterrupted(disk, path) == [disk EXCEPT ![path] = Partial]

\* the file at a path: none where there is no such path
FileAt(disk, path) == IF path \in DOMAIN disk THEN disk[path] ELSE Absent

\* PdfReader(input_path) and len(reader.pages) succeed
Readable(disk, path, io) ==
    /\ path # None
    /\ path \in DOMAIN disk
    /\ disk[path].kind = "pdf"
    /\ io # "read_error"

\* the test for an empty selection left out
NothingToWriteIgnored(valid) == FALSE

\* if not valid_pages
NothingToWrite(valid) == valid = <<>>

\* trim_pdf(input_path, page_numbers, output_path) on the disk `disk`, the
\* environment acting as `io`: the returned (success, message, valid_pages),
\* the locals at the end of the loop, and the disk afterwards
trim_pdf(disk, input, page_numbers, output, io) ==
    IF ~Readable(disk, input, io) THEN Failed("read", NoLocals, disk)
    ELSE LET doc == disk[input].pages
             total == Len(doc)
             valid == ValidPages(page_numbers, total)
             invalid == InvalidPages(page_numbers, total)
             writer == WriterPages(doc, page_numbers)
             locals == [reached |-> TRUE, total_pages |-> total, valid_pages |-> valid,
                        invalid_pages |-> invalid, writer |-> writer, opened |-> FALSE]
             opened == [locals EXCEPT !.opened = TRUE]
         IN  IF NothingToWrite(valid) THEN NoValidPages(locals, disk)
             ELSE IF output = None \/ output \notin DOMAIN disk \/ io = "open_error"
             THEN Failed("open", opened, disk)
             ELSE IF io = "write_error"
             THEN Failed("write", opened, WriteInterrupted(disk, output))
             ELSE [success |-> TRUE, message |-> SuccessMessage(valid, invalid, total),
                   valid_pages |-> valid, locals |-> opened,
                   files |-> WriteOutput(disk, output, writer)]

\* ------------------------------------------------------------ parser spec

NotCalled == [ok |-> FALSE, error |-> "not called", part |-> <<>>, cause |-> ""]
NoArgs == [input_path |-> None, page_numbers |-> <<>>, output_path |-> None, before |-> Absent]
NotReturned == [success |-> FALSE, message |-> Message("not called", "", 0, <<>>, 0),
                valid_pages |-> <<>>, locals |-> NoLocals]

\* what the caller gets of a call: the returned tuple (and the locals)
Ret(r) == [success |-> r.success, message |-> r.message, valid_pages |-> r.valid_pages,
           locals |-> r.locals]

\* the labels and the message box as init_ui leaves them
NoLabels == [input_label |-> "No file selected", page_info_label |-> <<"">>,
             output_label |-> "No output location selected"]
NoBox == [icon |-> "none", title |-> "", text |-> "", detail |-> <<>>, reply |-> ""]

\* __init__ and init_ui
InitApp ==
    /\ input_path = None
    /\ output_path = None
    /\ total_pages = 0
    /\ process_button = FALSE
    /\ page_entry = <<>>
    /\ labels = NoLabels
    /\ status_label = <<"">>
    /\ message_box = NoBox

\* longer expressions: the ones the source shows the user, and two with a
\* reversed range among other parts
Examples ==
    { <<"1", "-", "3", ",", "5", ",", "6", "-", "9", ",", "1", "1">>,
      <<"1", ",", "3", ",", "5">>,
      <<"1", "0", "-", "2", "0">>,
      <<"0", ",", "1", "-", "0", ",", "1">>,
      <<"3", ",", "1", ",", ",", "2", "-", "3", ",">> }

InitParse ==
    /\ page_input \in Strings(MaxLen) \cup Examples
    /\ parsed = NotCalled
    /\ files = <<>>
    /\ trim_args = NoArgs
    /\ trim_ret = NotReturned
    /\ InitApp

ParseCall ==
    /\ parsed = NotCalled
    /\ parsed' = parse_page_ranges(page_input)
    /\ UNCHANGED <<page_input, files, trim_vars, app_vars>>

NextParse == ParseCall

SpecParse == InitParse /\ [][NextParse]_vars

\* ---------------------------------------------- properties of the parser

Called == parsed # NotCalled

\* the tokens of an expression, read off the expression itself: the cuts
\* are its commas and its two ends, a token is what lies between two
\* neighbouring cuts, spaces not counted
Cuts(text) == {0, Len(text) + 1} \cup {i \in 1..Len(text) : text[i] = ","}

TokenBounds(text) ==
    {b \in Cuts(text) \X Cuts(text) :
        b[1] < b[2] /\ \A c \in Cuts(text) : ~(b[1] < c /\ c < b[2])}

Tokens(text) ==
    LET B == TokenBounds(text)
        kth(k) == CHOOSE b \in B : Cardinality({x \in B : x[1] < b[1]}) = k - 1
    IN  [k \in 1..Cardinality(B) |->
            SelectSeq(SubSeq(text, kth(k)[1] + 1, kth(k)[2] - 1), LAMBDA c : c # " ")]

HyphenCount(t) == Cardinality({i \in 1..Len(t) : t[i] = "-"})
StartOf(t) == SubSeq(t, 1, FirstIndex(t, "-") - 1)
EndOf(t) == SubSeq(t, FirstIndex(t, "-") + 1, Len(t))

\* a token that is one integer, and a token that is a range of two
SingleToken(t) == t # <<>> /\ HyphenCount(t) = 0 /\ IntOk(t)
RangeToken(t) == HyphenCount(t) > 0 /\ IntOk(StartOf(t)) /\ IntOk(EndOf(t))
ReversedToken(t) == RangeToken(t) /\ IntValue(StartOf(t)) > IntValue(EndOf(t))
ValidToken(t) ==
    t = <<>> \/ SingleToken(t) \/ (RangeToken(t) /\ IntValue(StartOf(t)) <= IntValue(EndOf(t)))

\* the pages a valid token stands for
TokenPages(t) ==
    IF t = <<>> THEN {}
    ELSE IF SingleToken(t) THEN {IntValue(t)}
    ELSE {n \in IntValue(StartOf(t))..IntValue(EndOf(t)) : TRUE}

StrictlyIncreasing(seq) == \A i \in 1..(Len(seq) - 1) : seq[i] < seq[i + 1]
Elements(seq) == {seq[i] : i \in 1..Len(seq)}

\* C2: a successful parse returns a strictly increasing list whose elements
\* are exactly the pages of the expression's non-empty tokens: the number of
\* a single-integer token, every integer from start to end of a range token;
\* empty tokens add nothing and raise nothing
C2_SortedUnionOfTokens ==
    parsed.ok =>
        /\ StrictlyIncreasing(parsed.pages)
        /\ Elements(parsed.pages) =
               UNION {TokenPages(Tokens(page_input)[k]) : k \in 1..Len(Tokens(page_input))}

\* a successful parse of an expression with an empty token, a range of more
\* than one page, and single pages out of order and repeated
C2_Witness ==
    /\ parsed.ok
    /\ LET T == Tokens(page_input)
       IN  /\ \E k \in 1..Len(T) : T[k] = <<>>
           /\ \E k \in 1..Len(T) : RangeToken(T[k]) /\ Cardinality(TokenPages(T[k])) > 1
           /\ \E j, k \in 1..Len(T) :
                 /\ j < k /\ SingleToken(T[j]) /\ SingleToken(T[k])
                 /\ IntValue(T[j]) > IntValue(T[k])
           /\ \E j, k \in 1..Len(T) : j # k /\ TokenPages(T[j]) \cap TokenPages(T[k]) # {}

\* C5: an expression with a token of more than one "-" never parses
C5_TwoHyphensAlwaysFail ==
    Called =>
        ((\E k \in 1..Len(Tokens(page_input)) : HyphenCount(Tokens(page_input)[k]) > 1)
            => ~parsed.ok)

\* C7: an expression with a range token whose start is greater than its end
\* raises, no page list comes back, and with nothing but valid tokens before
\* that token the error is the start > end error about that very token
C7_ReversedRangeRaises ==
    Called =>
        LET T == Tokens(page_input)
        IN  \A k \in 1..Len(T) :
                ReversedToken(T[k]) =>
                    /\ ~parsed.ok
                    /\ "pages" \notin DOMAIN parsed
                    /\ (\A j \in 1..(k - 1) : ValidToken(T[j])) =>
                          /\ parsed.part = T[k]
                          /\ parsed.cause = "start > end"
                          /\ parsed.error = "Invalid range format"

\* a reversed range between two valid, non-empty tokens was parsed
C7_Witness ==
    /\ Called
    /\ LET T == Tokens(page_input)
       IN  \E k \in 2..(Len(T) - 1) :
              /\ ReversedToken(T[k])
              /\ \A j \in 1..Len(T) : j # k => (ValidToken(T[j]) /\ T[j] # <<>>)
              /\ parsed.part = T[k]

\* the page list, or failure
Outcome(r) == [ok |-> r.ok, pages |-> IF r.ok THEN r.pages ELSE <<>>]

\* C8: parsing an expression and parsing it with every whitespace character
\* deleted come out the same
C8_WhitespaceIsIgnored ==
    Called =>
        Outcome(parsed) =
            Outcome(parse_page_ranges(SelectSeq(page_input, LAMBDA c : c \notin Whitespace)))

\* ----------------------------------------------------------- trim_pdf spec

\* the page numbers a caller may hand to trim_pdf
PageNumbers == (0 - 1)..(MaxPageCount + 1)

RECURSIVE Lists(_)
Lists(n) ==
    IF n = 0 THEN {<<>>}
    ELSE LET shorter == Lists(n - 1)
         IN  shorter \cup {Append(s, p) : s \in {t \in shorter : Len(t) = n - 1}, p \in PageNumbers}

SourceFile == PathOf("/docs", <<"in">>, ".pdf")
DestFile == PathOf("/docs", <<"out">>, ".pdf")

InitTrim ==
    /\ page_input = <<>>
    /\ parsed = NotCalled
    /\ \E source \in {Pdf(Doc("in", n)) : n \in 0..MaxPageCount} \cup {NotPdf, Absent},
          dest \in {Absent, Pdf(Doc("old", 1))} :
            files = [p \in {SourceFile, DestFile} |-> IF p = SourceFile THEN source ELSE dest]
    /\ \E pages \in Lists(MaxRequest) :
            trim_args = [input_path |-> SourceFile, page_numbers |-> pages,
                         output_path |-> DestFile, before |-> Absent]
    /\ trim_ret = NotReturned
    /\ InitApp

TrimCall(io) ==
    /\ trim_ret = NotReturned
    /\ LET r == trim_pdf(files, trim_args.input_path, trim_args.page_numbers,
                         trim_args.output_path, io)
       IN  /\ trim_ret' = Ret(r)
           /\ files' = r.files
           /\ trim_args' = [trim_args EXCEPT !.before = FileAt(files, trim_args.output_path)]
    /\ UNCHANGED <<parse_vars, app_vars>>

NextTrim == \E io \in IOOutcomes : TrimCall(io)

SpecTrim == InitTrim /\ [][NextTrim]_vars

\* -------------------------------------------- properties of the extractor

TrimReturned == trim_ret # NotReturned

\* the elements of seq at the positions I, in the order they have in seq
Pick(seq, I) ==
    [k \in 1..Cardinality(I) |->
        seq[CHOOSE i \in I : Cardinality({j \in I : j < i}) = k - 1]]

\* the source document of the latest call
SourcePages == FileAt(files, trim_args.input_path).pages

\* C1: once the loop is through, valid_pages holds exactly the elements p
\* of the page list with 1 <= p <= total_pages and invalid_pages exactly
\* the others, position by position: each element lands in one list, and
\* both lists keep the order of the page list
C1_Partition ==
    trim_ret.locals.reached =>
        LET S == trim_args.page_numbers
            N == trim_ret.locals.total_pages
            I == {i \in 1..Len(S) : 1 <= S[i] /\ S[i] <= N}
        IN  /\ N = Len(SourcePages)
            /\ trim_ret.locals.valid_pages = Pick(S, I)
            /\ trim_ret.locals.invalid_pages = Pick(S, (1..Len(S)) \ I)

\* a list out of order, with a repeated page, pages in and out of range
C1_Witness ==
    /\ trim_ret.locals.reached
    /\ Len(trim_ret.locals.valid_pages) >= 2
    /\ trim_ret.locals.invalid_pages # <<>>
    /\ ~StrictlyIncreasing(trim_args.page_numbers)
    /\ \E i \in 1..Len(trim_args.page_numbers) :
          trim_args.page_numbers[i] = trim_ret.locals.total_pages

\* C3: a call that returns success = False leaves the file at the output
\* path as it was before the call
C3_FailureLeavesDestination ==
    (TrimReturned /\ ~trim_ret.success) =>
        FileAt(files, trim_args.output_path) = trim_args.before

\* C4: with the page count read and no requested page within it, the call
\* returns success = False, no valid pages and the "No valid pages" message,
\* and the output file is not opened and is what it was
C4_NoValidPages ==
    (trim_ret.locals.reached
        /\ \A i \in 1..Len(trim_args.page_numbers) :
              ~(1 <= trim_args.page_numbers[i]
                  /\ trim_args.page_numbers[i] <= trim_ret.locals.total_pages)) =>
        /\ ~trim_ret.success
        /\ trim_ret.valid_pages = <<>>
        /\ trim_ret.message.text = "No valid pages to include in the output PDF."
        /\ ~trim_ret.locals.opened
        /\ FileAt(files, trim_args.output_path) = trim_args.before

\* a request with pages, all of them outside a document that has pages,
\* and an output file that exists
C4_Witness ==
    /\ trim_ret.locals.reached
    /\ trim_ret.locals.total_pages > 0
    /\ trim_ret.message.text = "No valid pages to include in the output PDF."
    /\ Len(trim_args.page_numbers) >= 2
    /\ trim_args.before.kind = "pdf"

\* C9: after a successful call the output file is a document with one page
\* per included page number, page i being the source's page at position
\* valid_pages[i]; nothing else is in it; an ascending request gives
\* ascending pages, and the request 1..N gives the source's pages as they are
C9_OutputIsTheIncludedPages ==
    trim_ret.success =>
        LET out == FileAt(files, trim_args.output_path)
            inc == trim_ret.valid_pages
        IN  /\ out.kind = "pdf"
            /\ Len(out.pages) = Len(inc)
            /\ \A i \in 1..Len(inc) :
                  inc[i] \in 1..Len(SourcePages) /\ out.pages[i] = SourcePages[inc[i]]
            /\ StrictlyIncreasing(trim_args.page_numbers) => StrictlyIncreasing(inc)
            /\ trim_args.page_numbers = [i \in 1..Len(SourcePages) |-> i] =>
                  out.pages = SourcePages

\* an ascending request with a page left out in the middle and a page past
\* the end, written over an existing file
C9_Witness ==
    /\ trim_ret.success
    /\ StrictlyIncreasing(trim_args.page_numbers)
    /\ Len(trim_ret.valid_pages) = 2
    /\ trim_ret.valid_pages[2] = trim_ret.valid_pages[1] + 2
    /\ trim_ret.locals.invalid_pages # <<>>
    /\ trim_args.before.kind = "pdf"

\* ------------------------------------------------------ PDFPageSelectorApp

\* input_file.parent / f"{input_file.stem}_trimmed{input_file.suffix}"
DefaultOutput(filename) ==
    PathOf(filename.parent, Append(filename.stem, "_trimmed"), filename.suffix)

\* the dialogs' answer when the user cancels: the empty string
Cancelled == PathOf("", <<>>, "")

\* update_process_button: the state it gives the button
ButtonEnabled(input, output) == input # None /\ output # None

\* a QMessageBox and the button the user left it by
Box(icon, title, text, detail, reply) ==
    [icon |-> icon, title |-> title, text |-> text, detail |-> detail, reply |-> reply]

\* browse_input, the open dialog answering `filename` and the environment
\* acting as `io` on the read of the page count
browse_input(filename, io) ==
    /\ IF filename = Cancelled
       THEN UNCHANGED <<input_path, output_path, total_pages, process_button, labels,
                        message_box>>
       ELSE IF Readable(files, filename, io)
       THEN /\ input_path' = filename
            /\ total_pages' = Len(files[filename].pages)
            /\ output_path' = DefaultOutput(filename)
            /\ labels' = [input_label |-> filename,
                          page_info_label |-> <<"Total pages: ", Len(files[filename].pages)>>,
                          output_label |-> DefaultOutput(filename)]
            /\ process_button' = ButtonEnabled(input_path', output_path')
            /\ UNCHANGED message_box
       ELSE /\ message_box' = Box("critical", "Error", "Could not read PDF: ", "read", "Ok")
            /\ input_path' = None
            /\ total_pages' = 0
            /\ labels' = [labels EXCEPT !.input_label = "No file selected",
                                        !.page_info_label = <<"">>]
            /\ UNCHANGED <<output_path, process_button>>
    /\ UNCHANGED <<parse_vars, files, trim_vars, page_entry, status_label>>

\* browse_output, the save dialog answering `filename`
browse_output(filename) ==
    /\ IF filename = Cancelled
       THEN UNCHANGED <<output_path, labels, process_button>>
       ELSE /\ output_path' = filename
            /\ labels' = [labels EXCEPT !.output_label = filename]
            /\ process_button' = ButtonEnabled(input_path, output_path')
    /\ UNCHANGED <<parse_vars, files, trim_vars, input_path, total_pages, page_entry,
                   status_label, message_box>>

\* the user types `text` into page_entry
edit_page_entry(text) ==
    /\ page_entry' = text
    /\ UNCHANGED <<parse_vars, files, trim_vars, input_path, output_path, total_pages,
                   process_button, labels, status_label, message_box>>

\* os.path.exists(self.output_path)
Exists(disk, path) == path \in DOMAIN disk /\ disk[path].kind # "absent"

\* process_pdf, a click on the enabled button: the user answers the
\* overwrite question (when asked) with `reply`, and the environment acts
\* as `io` on the trim_pdf call
process_pdf(reply, io) ==
    /\ process_button
    /\ LET text == Strip(page_entry)
           result == parse_page_ranges(text)
           asked == output_path # None /\ Exists(files, output_path)
           r == trim_pdf(files, input_path, result.pages, output_path, io)
       IN  IF text = <<>>
           THEN /\ message_box' = Box("warning", "Error", "Please enter page ranges.", <<>>, "Ok")
                /\ UNCHANGED <<parse_vars, files, trim_vars, status_label>>
           ELSE /\ page_input' = text
                /\ parsed' = result
                /\ IF ~result.ok
                   THEN /\ message_box' = Box("warning", "Error", "Invalid page format:", result, "Ok")
                        /\ UNCHANGED <<files, trim_vars, status_label>>
                   ELSE IF result.pages = <<>>
                   THEN /\ message_box' = Box("warning", "Error", "No valid page numbers found.", <<>>, "Ok")
                        /\ UNCHANGED <<files, trim_vars, status_label>>
                   ELSE IF asked /\ reply = "No"
                   THEN /\ message_box' = Box("question", "Confirm Overwrite", "File already exists:",
                                              output_path, "No")
                        /\ UNCHANGED <<files, trim_vars, status_label>>
                   ELSE /\ trim_args' = [input_path |-> input_path, page_numbers |-> result.pages,
                                         output_path |-> output_path,
                                         before |-> FileAt(files, output_path)]
                        /\ trim_ret' = Ret(r)
                        /\ files' = r.files
                        /\ IF r.success
                           THEN /\ status_label' = <<"Success! Saved to: ", output_path>>
                                /\ message_box' = Box("information", "Success", "", r.message, "Ok")
                           ELSE /\ status_label' = <<"Failed">>
                                /\ message_box' = Box("critical", "Error", "", r.message, "Ok")
    /\ UNCHANGED <<input_path, output_path, total_pages, process_button, page_entry, labels>>

\* ----------------------------------------------------------- the window

\* the files the dialogs can be pointed at
FileA == PathOf("/docs", <<"a">>, ".pdf")
FileX == PathOf("/docs", <<"x">>, ".pdf")
FileO == PathOf("/out", <<"o">>, ".pdf")

InputChoices == {FileA, FileX}
OutputChoices == {FileO}
DiskPaths == InputChoices \cup OutputChoices \cup {DefaultOutput(f) : f \in InputChoices}

\* the texts the user types
TypedTexts ==
    { <<>>, <<",">>, <<"a">>, <<"3">>, <<" ", "1", "-", "3">> }

Init ==
    /\ page_input = <<>>
    /\ parsed = NotCalled
    /\ files = [p \in DiskPaths |->
                  CASE p = FileA -> Pdf(Doc("a", 2))
                    [] p = FileX -> NotPdf
                    [] OTHER -> Absent]
    /\ trim_args = NoArgs
    /\ trim_ret = NotReturned
    /\ InitApp

Next ==
    \/ \E filename \in InputChoices \cup {Cancelled}, io \in {"ok", "read_error"} :
            browse_input(filename, io)
    \/ \E filename \in OutputChoices \cup {Cancelled} : browse_output(filename)
    \/ \E text \in TypedTexts : edit_page_entry(text)
    \/ \E reply \in {"Yes", "No"}, io \in IOOutcomes : process_pdf(reply, io)

Spec == Init /\ [][Next]_vars

\* ------------------------------------------------- process_pdf on any text

\* longest text in page_entry
MaxEntry == 3

\* the window after browse_input has read a document of n pages, with any
\* text typed into page_entry
InitProcess ==
    /\ page_input = <<>>
    /\ parsed = NotCalled
    /\ \E n \in 0..MaxPageCount :
          /\ files = [p \in {SourceFile, DefaultOutput(SourceFile)} |->
                        IF p = SourceFile THEN Pdf(Doc("in", n)) ELSE Absent]
          /\ total_pages = n
          /\ labels = [input_label |-> SourceFile,
                       page_info_label |-> <<"Total pages: ", n>>,
                       output_label |-> DefaultOutput(SourceFile)]
    /\ trim_args = NoArgs
    /\ trim_ret = NotReturned
    /\ input_path = SourceFile
    /\ output_path = DefaultOutput(SourceFile)
    /\ process_button = TRUE
    /\ page_entry \in Strings(MaxEntry)
    /\ status_label = <<"">>
    /\ message_box = NoBox

NextProcess == \E reply \in {"Yes", "No"}, io \in IOOutcomes : process_pdf(reply, io)

SpecProcess == InitProcess /\ [][NextProcess]_vars

\* ------------------------------------------------ properties of the window

C10_ButtonNeedsBothPaths ==
    /\ process_button => (input_path # None /\ output_path # None)
    /\ TrimReturned => trim_args.input_path # None

====
